---------------------------- MODULE Spec2Model ----------------------------
(***************************************************************************)
(* Court Data Fetcher (src/app.py): the /search, /history, /history/clear  *)
(* and /download/raw routes over the `queries` table, and the live         *)
(* scraping attempt DelhiHighCourtRealScraper.search_case_real.            *)
(*                                                                         *)
(* Text is a sequence of tokens; the inputs of a request are sequences of  *)
(* one-character tokens, so that str.strip(), re.match and the f-strings   *)
(* are computed character by character.                                    *)
(***************************************************************************)
EXTENDS Integers, Sequences, FiniteSets, TLC

(***************************************************************************)
(* Bounds of the model.                                                    *)
(***************************************************************************)
\* rows ever inserted into `queries` (AUTOINCREMENT ids 1..MaxQueries)
MaxQueries == 2
\* seconds the clock behind CURRENT_TIMESTAMP may advance
MaxClock == 1
\* browsers webdriver.Chrome may start on one scraper object
MaxDrivers == 2
\* <td> cells of a results page
MaxCells == 2

(***************************************************************************)
(* Text helpers.                                                           *)
(***************************************************************************)
Whitespace == {" "}
Digits == {"0", "1", "2", "3", "4", "5", "6", "7", "8", "9"}

RECURSIVE LStrip(_)
LStrip(s) ==
    IF s # <<>> /\ Head(s) \in Whitespace THEN LStrip(Tail(s)) ELSE s

RECURSIVE RStrip(_)
RStrip(s) ==
    IF s # <<>> /\ s[Len(s)] \in Whitespace
    THEN RStrip(SubSeq(s, 1, Len(s) - 1))
    ELSE s

\* str.strip()
Strip(s) == RStrip(LStrip(s))

\* mutant: the pattern written ^\d{2}$
MatchYear_two_digits(s) == Len(s) = 2 /\ \A i \in 1..2 : s[i] \in Digits

\* re.match(r'^\d{4}$', s); the texts of this model hold no newline, so the
\* "$ before a final newline" case of Python's $ cannot arise.
MatchYear(s) == Len(s) = 4 /\ \A i \in 1..4 : s[i] \in Digits

(***************************************************************************)
(* JSON values of a request body field.                                    *)
(***************************************************************************)
Str(s) == [kind |-> "str", val |-> s]
Missing == [kind |-> "missing", val |-> <<>>]
JsonNull == [kind |-> "null", val |-> <<>>]

\* data.get(key, ''): the default for an absent key; a present null stays None
DataGet(v) == IF v.kind = "missing" THEN Str(<<>>) ELSE v

\* the bodies of the requests: absent keys, a null, blank and padded texts,
\* years that are short, long, padded or hold a letter
CaseTypeInputs ==
    {Missing, JsonNull, Str(<<" ">>), Str(<<"W">>), Str(<<" ", "W">>)}
CaseNumberInputs == {Missing, Str(<<" ">>), Str(<<"7">>)}
FilingYearInputs ==
    {Missing, Str(<<>>), Str(<<"2", "4">>), Str(<<"2", "0", "2", "4">>),
     Str(<<" ", "2", "0", "2", "4">>), Str(<<"2", "0", "x", "4">>),
     Str(<<"2", "0", "2", "4", "5">>)}

Bodies ==
    [case_type : CaseTypeInputs, case_number : CaseNumberInputs,
     filing_year : FilingYearInputs]

\* the body {}: request.get_json() gives a falsy value (line 442)
NoBody == [case_type |-> Missing, case_number |-> Missing, filing_year |-> Missing]

(***************************************************************************)
(* Lookup results (the dicts the scraper returns).  `keys` is the set of   *)
(* keys the dict holds; a field whose key is absent holds a filler.        *)
(***************************************************************************)
NoData ==
    [case_number |-> <<>>, petitioner |-> <<>>, respondent |-> <<>>,
     filing_date |-> <<>>, next_hearing_date |-> <<>>, case_status |-> <<>>,
     orders |-> <<>>, case_history |-> <<>>]

\* raw_html values: None, '', the mock page literal, or a page the browser read
NoneHtml == [kind |-> "none", cells |-> <<>>]
EmptyHtml == [kind |-> "empty", cells |-> <<>>]
MockHtml == [kind |-> "mock", cells |-> <<>>]

NoResult ==
    [keys |-> {}, success |-> FALSE, error |-> "", data |-> NoData,
     raw_html |-> NoneHtml, source |-> "", blocked |-> FALSE]

\* mutant: the year joined with a dash
CaseTitle_dash(case_type, case_number, filing_year) ==
    case_type \o <<" ">> \o case_number \o <<"-">> \o filing_year

\* f"{case_type} {case_number}/{filing_year}"
CaseTitle(case_type, case_number, filing_year) ==
    case_type \o <<" ">> \o case_number \o <<"/">> \o filing_year

PdfLink(case_type, case_number, filing_year, suffix) ==
    <<"/orders/">> \o case_type \o <<"_">> \o case_number \o <<"_">>
        \o filing_year \o <<suffix>>

_generate_mock_response(case_type, case_number, filing_year) ==
    [case_number |-> CaseTitle(case_type, case_number, filing_year),
     petitioner |-> <<"Sample Petitioner ">> \o case_number,
     respondent |-> <<"State of Delhi & Others">>,
     filing_date |-> <<"1", "5", "/", "0", "3", "/">> \o filing_year,
     next_hearing_date |-> <<"25/12/2024">>,
     case_status |-> <<"Listed for hearing">>,
     orders |->
       << [date |-> <<"20/11/2024">>, order_type |-> "Order",
           description |->
             <<"Case ">> \o CaseTitle(case_type, case_number, filing_year)
               \o <<" adjourned to next date for final hearing">>,
           pdf_link |-> PdfLink(case_type, case_number, filing_year, "_order.pdf")],
          [date |-> <<"15/10/2024">>, order_type |-> "Notice",
           description |-> <<"Notice issued to all respondents to file reply">>,
           pdf_link |-> PdfLink(case_type, case_number, filing_year, "_notice.pdf")] >>,
     case_history |->
       << [date |-> <<"1", "5", "/", "0", "3", "/">> \o filing_year,
           event |-> "Case filed and registered"],
          [date |-> <<"20/03/2024">>, event |-> "First hearing scheduled"] >>]

_fallback_to_mock(case_type, case_number, filing_year) ==
    [keys |-> {"success", "data", "raw_html", "source", "note"},
     success |-> TRUE, error |-> "",
     data |-> _generate_mock_response(case_type, case_number, filing_year),
     raw_html |-> MockHtml, source |-> "mock_data", blocked |-> FALSE]

\* scraper.search_case: the live attempt is commented out (line 403); the
\* result is the mock with an 'explanation' block added.
scraper_search_case(case_type, case_number, filing_year) ==
    [_fallback_to_mock(case_type, case_number, filing_year)
        EXCEPT !.keys = @ \cup {"explanation"}]

\* mutant: result.get('blocked', True)
ResultGetBlocked_default_true(result) ==
    IF "blocked" \in result.keys THEN result.blocked ELSE TRUE

\* result.get(key, default)
ResultGetBlocked(result) ==
    IF "blocked" \in result.keys THEN result.blocked ELSE FALSE
ResultGetRawHtml(result) ==
    IF "raw_html" \in result.keys THEN result.raw_html ELSE EmptyHtml
ResultGetData(result) ==
    IF "data" \in result.keys THEN [present |-> TRUE, data |-> result.data]
    ELSE [present |-> FALSE, data |-> NoData]

(***************************************************************************)
(* State.                                                                  *)
(***************************************************************************)
VARIABLES
    queries,       \* the `queries` table, rows in insertion order
    nextId,        \* the id AUTOINCREMENT gives the next row
    now,           \* CURRENT_TIMESTAMP, in seconds
    req,           \* the request handled last
    resp,          \* the response to it
    lookedUp,      \* whether that request reached scraper.search_case
    storeOutcome,  \* what the database did during that request
    lpc,           \* search_case_real: position of the call
    largs,         \* search_case_real: its arguments
    driver,        \* self.driver: 0 is None, else a browser handle
    acquired,      \* the handle webdriver.Chrome returned in this call, or 0
    quitted,       \* handles on which quit() has been called
    nextHandle,    \* the handle the next webdriver.Chrome returns
    page,          \* the page the browser holds
    lexit,         \* the path the call left by
    lresult        \* what the call returned

routeVars == <<queries, nextId, now, req, resp, lookedUp, storeOutcome>>
liveVars == <<lpc, largs, driver, acquired, quitted, nextHandle, page, lexit, lresult>>
vars == <<queries, nextId, now, req, resp, lookedUp, storeOutcome,
          lpc, largs, driver, acquired, quitted, nextHandle, page, lexit, lresult>>

(***************************************************************************)
(* The query log store.                                                    *)
(***************************************************************************)
\* sqlite3.connect, cursor.execute or conn.commit raises, or none does
StoreOutcomes == {"ok", "fails"}

\* json.dumps(parsed_data) if parsed_data else '{}'
JsonDumps(parsed) ==
    IF parsed.present THEN [json |-> "object", data |-> parsed.data]
    ELSE [json |-> "{}", data |-> NoData]

\* mutant: the except clause of log_query re-raises
log_query_reraises(table, id, ts, case_type, case_number, filing_year, raw_response, status, parsed_data, is_blocked, outcome) ==
    [raised |-> outcome # "ok", table |-> table, nextId |-> id]

\* mutant: INSERT OR REPLACE on a fixed key, so the row takes the place of
\* the rows before it
log_query_replaces(table, id, ts, case_type, case_number, filing_year, raw_response, status, parsed_data, is_blocked, outcome) ==
    [raised |-> FALSE,
     table |-> << [id |-> id, case_type |-> case_type,
                   case_number |-> case_number, filing_year |-> filing_year,
                   query_timestamp |-> ts, raw_response |-> raw_response,
                   status |-> status, parsed_data |-> JsonDumps(parsed_data),
                   is_blocked |-> IF is_blocked THEN 1 ELSE 0,
                   retry_count |-> 0] >>,
     nextId |-> id + 1]

\* log_query: every exception is caught and logged (lines 612-613), so the
\* caller never sees one: raised is FALSE on every path.
log_query(table, id, ts, case_type, case_number, filing_year, raw_response, status, parsed_data, is_blocked, outcome) ==
    IF outcome = "ok"
    THEN [raised |-> FALSE,
          table |-> Append(table,
              [id |-> id, case_type |-> case_type, case_number |-> case_number,
               filing_year |-> filing_year, query_timestamp |-> ts,
               raw_response |-> raw_response, status |-> status,
               parsed_data |-> JsonDumps(parsed_data),
               is_blocked |-> IF is_blocked THEN 1 ELSE 0,
               retry_count |-> 0]),
          nextId |-> id + 1]
    ELSE [raised |-> FALSE, table |-> table, nextId |-> id]

(***************************************************************************)
(* Responses.                                                              *)
(***************************************************************************)
Response(status, result, rows, text) ==
    [status |-> status, result |-> result, rows |-> rows, text |-> text]

ErrorResult(message) ==
    [NoResult EXCEPT !.keys = {"success", "error"}, !.error = message]

JsonError(status, message) == Response(status, ErrorResult(message), <<>>, NoneHtml)

(***************************************************************************)
(* POST /search                                                            *)
(***************************************************************************)
\* mutant: the year format is checked before the required fields
validate_year_first(case_type, case_number, filing_year) ==
    IF ~MatchYear(filing_year)
    THEN "Filing year must be a 4-digit year"
    ELSE IF case_type = <<>> \/ case_number = <<>> \/ filing_year = <<>>
    THEN "All fields are required"
    ELSE ""

\* mutant: any four characters pass for a year
validate_any_four(case_type, case_number, filing_year) ==
    IF case_type = <<>> \/ case_number = <<>> \/ filing_year = <<>>
    THEN "All fields are required"
    ELSE IF Len(filing_year) # 4
    THEN "Filing year must be a 4-digit year"
    ELSE ""

\* lines 451-462: the message of the 400 response, or "" for a valid request
validate(case_type, case_number, filing_year) ==
    IF case_type = <<>> \/ case_number = <<>> \/ filing_year = <<>>
    THEN "All fields are required"
    ELSE IF ~MatchYear(filing_year)
    THEN "Filing year must be a 4-digit year"
    ELSE ""

\* the route, as a function of the body and of what the store does: the
\* response, the table after it, and whether the lookup ran
search_case(body, outcome, table, id, ts) ==
    LET rejected(r) ==
            [resp |-> r, table |-> table, nextId |-> id, lookedUp |-> FALSE]
    IN
    IF body = NoBody
    THEN rejected(JsonError(400, "Invalid JSON data"))
    ELSE IF \E f \in {"case_type", "case_number", "filing_year"} :
                DataGet(body[f]).kind = "null"
    THEN \* None.strip() raises AttributeError: the handler of line 481
         rejected(JsonError(500, "Internal server error. Please try again."))
    ELSE
    LET case_type == Strip(DataGet(body.case_type).val)
        case_number == Strip(DataGet(body.case_number).val)
        filing_year == Strip(DataGet(body.filing_year).val)
        invalid == validate(case_type, case_number, filing_year)
    IN
    IF invalid # ""
    THEN rejected(JsonError(400, invalid))
    ELSE
    LET result == scraper_search_case(case_type, case_number, filing_year)
        logged == log_query(table, id, ts, case_type, case_number, filing_year,
                            ResultGetRawHtml(result),
                            IF result.success THEN "success" ELSE "error",
                            ResultGetData(result),
                            ResultGetBlocked(result), outcome)
    IN
    IF logged.raised
    THEN [resp |-> JsonError(500, "Internal server error. Please try again."),
          table |-> logged.table, nextId |-> logged.nextId, lookedUp |-> TRUE]
    ELSE [resp |-> Response(200, result, <<>>, NoneHtml),
          table |-> logged.table, nextId |-> logged.nextId, lookedUp |-> TRUE]

Search(body, outcome) ==
    /\ nextId <= MaxQueries
    /\ LET out == search_case(body, outcome, queries, nextId, now)
       IN /\ resp' = out.resp
          /\ queries' = out.table
          /\ nextId' = out.nextId
          /\ lookedUp' = out.lookedUp
    /\ req' = [op |-> "search", body |-> body, query_id |-> 0]
    /\ storeOutcome' = outcome
    /\ UNCHANGED <<now, liveVars>>

(***************************************************************************)
(* GET /history                                                            *)
(***************************************************************************)
\* LIMIT 50 (line 534)
HistoryLimit == 50

\* the orders ORDER BY query_timestamp DESC allows: SQL leaves the order of
\* rows with equal timestamps open
TimestampDescOrders(table) ==
    {o \in [1..Len(table) -> 1..Len(table)] :
        /\ \A i, j \in 1..Len(table) : i # j => o[i] # o[j]
        /\ \A i, j \in 1..Len(table) :
              i < j => table[o[i]].query_timestamp >= table[o[j]].query_timestamp}

HistoryRow(row) ==
    [case_type |-> row.case_type, case_number |-> row.case_number,
     filing_year |-> row.filing_year, query_timestamp |-> row.query_timestamp,
     status |-> row.status, id |-> row.id, is_blocked |-> row.is_blocked]

query_history(table, order, outcome) ==
    IF outcome # "ok"
    THEN Response(500, NoResult, <<>>, NoneHtml)
    ELSE LET n == IF Len(table) < HistoryLimit THEN Len(table) ELSE HistoryLimit
         IN Response(200, NoResult,
                     [i \in 1..n |-> HistoryRow(table[order[i]])], NoneHtml)

History(order, outcome) ==
    /\ resp' = query_history(queries, order, outcome)
    /\ req' = [op |-> "history", body |-> NoBody, query_id |-> 0]
    /\ storeOutcome' = outcome
    /\ lookedUp' = FALSE
    /\ UNCHANGED <<queries, nextId, now, liveVars>>

(***************************************************************************)
(* POST /history/clear                                                     *)
(***************************************************************************)
\* DELETE FROM queries; AUTOINCREMENT never gives a deleted id again
\* mutant: conn.commit() left out, so the DELETE is rolled back on close
clear_history_no_commit(table, outcome) ==
    IF outcome = "ok"
    THEN [resp |-> Response(200, [NoResult EXCEPT !.keys = {"success"},
                                                  !.success = TRUE],
                            <<>>, NoneHtml),
          table |-> table]
    ELSE [resp |-> JsonError(500, "str(e)"), table |-> table]

clear_history(table, outcome) ==
    IF outcome = "ok"
    THEN [resp |-> Response(200, [NoResult EXCEPT !.keys = {"success"},
                                                  !.success = TRUE],
                            <<>>, NoneHtml),
          table |-> <<>>]
    ELSE [resp |-> JsonError(500, "str(e)"), table |-> table]

ClearHistory(outcome) ==
    /\ LET out == clear_history(queries, outcome)
       IN resp' = out.resp /\ queries' = out.table
    /\ req' = [op |-> "clear", body |-> NoBody, query_id |-> 0]
    /\ storeOutcome' = outcome
    /\ lookedUp' = FALSE
    /\ UNCHANGED <<nextId, now, liveVars>>

(***************************************************************************)
(* GET /download/raw/<query_id>                                            *)
(***************************************************************************)
\* mutant: the row is taken by its position in the table, not by its id
download_raw_data_by_position(table, query_id, outcome) ==
    IF outcome # "ok"
    THEN JsonError(500, "str(e)")
    ELSE IF query_id \notin 1..Len(table)
    THEN JsonError(404, "Query not found")
    ELSE Response(200, NoResult, <<>>, table[query_id].raw_response)

download_raw_data(table, query_id, outcome) ==
    IF outcome # "ok"
    THEN JsonError(500, "str(e)")
    ELSE IF ~ \E i \in 1..Len(table) : table[i].id = query_id
    THEN JsonError(404, "Query not found")
    ELSE LET row == table[CHOOSE i \in 1..Len(table) : table[i].id = query_id]
         IN IF row.raw_response.kind = "none"
            THEN \* f.write(None) raises TypeError: the handler of line 586
                 JsonError(500, "str(e)")
            ELSE Response(200, NoResult, <<>>, row.raw_response)

DownloadRaw(query_id, outcome) ==
    /\ resp' = download_raw_data(queries, query_id, outcome)
    /\ req' = [op |-> "download", body |-> NoBody, query_id |-> query_id]
    /\ storeOutcome' = outcome
    /\ lookedUp' = FALSE
    /\ UNCHANGED <<queries, nextId, now, liveVars>>

\* wall-clock time passes between requests
Tick ==
    /\ now < MaxClock
    /\ now' = now + 1
    /\ UNCHANGED <<queries, nextId, req, resp, lookedUp, storeOutcome, liveVars>>

(***************************************************************************)
(* The live attempt: DelhiHighCourtRealScraper.search_case_real.           *)
(***************************************************************************)
LiveArgs ==
    [case_type : {<<>>, <<"W">>, <<" ", "W">>},
     case_number : {<<>>, <<"7">>},
     filing_year : {<<"2", "4">>, <<"2", "0", "2", "4">>}]

NoArgs == [case_type |-> <<>>, case_number |-> <<>>, filing_year |-> <<>>]
NoPage == NoneHtml
LandingPage == [kind |-> "landing", cells |-> <<>>]

\* the texts of <td> cells, as words
DateTokens == {"01/02/2020", "03/04/2021", "05/06/2022"}
FilingWords == {"Filed", "filing"}
HearingWords == {"Hearing", "next"}
Cells ==
    { <<"Filed", " ", "01/02/2020">>,
      <<"filing", " ", "03/04/2021">>,
      <<"next", " ", "Hearing", " ", "05/06/2022">>,
      <<"next", " ", "Filed", " ", "01/02/2020">>,
      <<"Filed">>,
      <<"05/06/2022">> }

ResultPages ==
    {[kind |-> "results", cells |-> c] :
        c \in UNION {[1..n -> Cells] : n \in 0..MaxCells}}
    \cup {[kind |-> "no_record", cells |-> <<>>],
          [kind |-> "malformed", cells |-> <<>>]}

Contains(text, words) == \E i \in 1..Len(text) : text[i] \in words

\* lines 300-309: the scan over soup.find_all('td')
RECURSIVE ScanDates(_, _)
ScanDates(cells, data) ==
    IF cells = <<>> THEN data
    ELSE LET text == Head(cells)
             next ==
               IF Contains(text, DateTokens)
               THEN IF Contains(text, FilingWords)
                    THEN [data EXCEPT !.filing_date = text]
                    ELSE IF Contains(text, HearingWords)
                    THEN [data EXCEPT !.next_hearing_date = text]
                    ELSE data
               ELSE data
         IN ScanDates(Tail(cells), next)

\* the pages of this model hold no parties container, status cell or orders
\* table, so those fields keep their defaults
_parse_real_response(html, case_type, case_number, filing_year) ==
    IF html.kind = "malformed"
    THEN \* the parser raises: lines 338-340
         _fallback_to_mock(case_type, case_number, filing_year)
    ELSE [keys |-> {"success", "data", "raw_html", "source"},
          success |-> TRUE, error |-> "",
          data |-> ScanDates(html.cells,
              [case_number |-> CaseTitle(case_type, case_number, filing_year),
               petitioner |-> <<"N/A">>, respondent |-> <<"N/A">>,
               filing_date |-> <<"N/A">>, next_hearing_date |-> <<"N/A">>,
               case_status |-> <<"N/A">>, orders |-> <<>>, case_history |-> <<>>]),
          raw_html |-> html, source |-> "real_scraping", blocked |-> FALSE]

\* _close_driver: quit() if there is a driver, whatever quit() raises is
\* dropped, and self.driver = None
_close_driver(d, q) ==
    [driver |-> 0, quitted |-> IF d # 0 THEN q \cup {d} ELSE q]

\* the except clause of search_case_real (lines 180-183)
real_except(d, q, args) ==
    LET c == _close_driver(d, q)
    IN [result |-> _fallback_to_mock(args.case_type, args.case_number,
                                     args.filing_year),
        driver |-> c.driver, quitted |-> c.quitted]

\* mutant: the dict is built, page_source read, before the driver is closed
captcha_branch_source_first(d, q, args, pg) ==
    LET c == _close_driver(d, q)
    IN [result |->
           [NoResult EXCEPT
               !.keys = {"success", "error", "raw_html", "blocked",
                         "requires_captcha"},
               !.error = "CAPTCHA detected",
               !.raw_html = pg, !.blocked = TRUE],
        driver |-> c.driver, quitted |-> c.quitted]

\* lines 160-173: the CAPTCHA branch closes the driver and then builds the
\* dict, whose 'raw_html' reads self.driver.page_source
captcha_branch(d, q, args, pg) ==
    LET c == _close_driver(d, q)
    IN IF c.driver = 0
       THEN \* None has no page_source: AttributeError, caught at line 180
            real_except(c.driver, c.quitted, args)
       ELSE [result |->
                [NoResult EXCEPT
                    !.keys = {"success", "error", "raw_html", "blocked",
                              "requires_captcha"},
                    !.error = "CAPTCHA detected",
                    !.raw_html = pg, !.blocked = TRUE],
             driver |-> c.driver, quitted |-> c.quitted]

\* the except clauses of _fill_search_form (lines 258-269), then lines
\* 177-178; reading page_source for 'raw_html' may itself raise, which
\* line 180 catches
form_except(d, q, args, pg, message, sourceOk) ==
    IF sourceOk
    THEN LET c == _close_driver(d, q)
         IN [result |-> [NoResult EXCEPT !.keys = {"success", "error", "raw_html"},
                                         !.error = message, !.raw_html = pg],
             driver |-> c.driver, quitted |-> c.quitted]
    ELSE real_except(d, q, args)

\* lines 246-256, then lines 177-178
form_results(d, q, args, pg) ==
    LET c == _close_driver(d, q)
        result ==
          IF pg.kind = "no_record"
          THEN [NoResult EXCEPT !.keys = {"success", "error", "raw_html"},
                                !.error = "No case found with the provided details",
                                !.raw_html = pg]
          ELSE _parse_real_response(pg, args.case_type, args.case_number,
                                    args.filing_year)
    IN [result |-> result, driver |-> c.driver, quitted |-> c.quitted]

Return(out, exit) ==
    /\ lresult' = out.result
    /\ driver' = out.driver
    /\ quitted' = out.quitted
    /\ lexit' = exit
    /\ lpc' = "returned"

LiveCall(args) ==
    /\ lpc \in {"idle", "returned"}
    /\ lpc' = "setup"
    /\ largs' = args
    /\ acquired' = 0
    /\ page' = NoPage
    /\ lexit' = "none"
    /\ lresult' = NoResult
    /\ UNCHANGED <<driver, quitted, nextHandle, routeVars>>

\* _setup_driver and lines 150-151
SetupDriver(outcome) ==
    /\ lpc = "setup"
    /\ \/ /\ outcome = "chrome_raises"
          /\ Return([result |-> _fallback_to_mock(largs.case_type,
                                     largs.case_number, largs.filing_year),
                     driver |-> driver, quitted |-> quitted],
                    "setup_exception")
          /\ UNCHANGED <<acquired, nextHandle>>
       \/ /\ outcome = "script_raises"
          /\ nextHandle <= MaxDrivers
          /\ Return([result |-> _fallback_to_mock(largs.case_type,
                                     largs.case_number, largs.filing_year),
                     driver |-> nextHandle, quitted |-> quitted],
                    "setup_exception")
          /\ acquired' = nextHandle
          /\ nextHandle' = nextHandle + 1
       \/ /\ outcome = "ok"
          /\ nextHandle <= MaxDrivers
          /\ driver' = nextHandle
          /\ acquired' = nextHandle
          /\ nextHandle' = nextHandle + 1
          /\ lpc' = "open"
          /\ UNCHANGED <<quitted, lexit, lresult>>
    /\ UNCHANGED <<largs, page, routeVars>>

\* line 156: self.driver.get(self.case_status_url)
OpenPage(ok) ==
    /\ lpc = "open"
    /\ IF ok
       THEN /\ lpc' = "check"
            /\ page' = LandingPage
            /\ UNCHANGED <<driver, quitted, lexit, lresult>>
       ELSE /\ Return(real_except(driver, quitted, largs), "open_exception")
            /\ UNCHANGED page
    /\ UNCHANGED <<largs, acquired, nextHandle, routeVars>>

\* _captcha_detected: a selector matches, a keyword is in the page, the
\* check itself raises (taken as a CAPTCHA), or nothing is found
CaptchaFindings == {"element", "keyword", "raises", "nothing"}

_captcha_detected(finding) == finding # "nothing"

CheckChallenge(finding) ==
    /\ lpc = "check"
    /\ IF _captcha_detected(finding)
       THEN Return(captcha_branch(driver, quitted, largs, page),
                   IF finding = "raises" THEN "check_exception" ELSE "blocked")
       ELSE /\ lpc' = "fill"
            /\ UNCHANGED <<driver, quitted, lexit, lresult>>
    /\ UNCHANGED <<largs, acquired, nextHandle, page, routeVars>>

\* lines 222-236: wait for the form and fill it
FillForm(outcome, sourceOk) ==
    /\ lpc = "fill"
    /\ \/ /\ outcome = "timeout"
          /\ Return(form_except(driver, quitted, largs, page,
                                "Timeout waiting for page elements", sourceOk),
                    "fill_timeout")
       \/ /\ outcome = "raises"
          /\ Return(form_except(driver, quitted, largs, page,
                                "Error filling search form", sourceOk),
                    "fill_exception")
       \/ /\ outcome = "ok"
          /\ sourceOk
          /\ lpc' = "submit"
          /\ UNCHANGED <<driver, quitted, lexit, lresult>>
    /\ UNCHANGED <<largs, acquired, nextHandle, page, routeVars>>

\* lines 239-246: submit, wait, read the page
Submit(pg, outcome, sourceOk) ==
    /\ lpc = "submit"
    /\ \/ /\ outcome = "raises"
          /\ Return(form_except(driver, quitted, largs, page,
                                "Error filling search form", sourceOk),
                    "submit_exception")
          /\ UNCHANGED page
       \/ /\ outcome = "ok"
          /\ sourceOk
          /\ pg \in ResultPages
          /\ page' = pg
          /\ lpc' = "results"
          /\ UNCHANGED <<driver, quitted, lexit, lresult>>
    /\ UNCHANGED <<largs, acquired, nextHandle, routeVars>>

\* lines 248-256 and 177-178
ReadResults ==
    /\ lpc = "results"
    /\ Return(form_results(driver, quitted, largs, page),
              IF page.kind = "no_record" THEN "no_record"
              ELSE IF page.kind = "malformed" THEN "parse_exception"
              ELSE "parsed")
    /\ UNCHANGED <<largs, acquired, nextHandle, page, routeVars>>

(***************************************************************************)
(* The system.                                                             *)
(***************************************************************************)
Init ==
    /\ queries = <<>>
    /\ nextId = 1
    /\ now = 0
    /\ req = [op |-> "none", body |-> NoBody, query_id |-> 0]
    /\ resp = Response(0, NoResult, <<>>, NoneHtml)
    /\ lookedUp = FALSE
    /\ storeOutcome = "ok"
    /\ lpc = "idle"
    /\ largs = NoArgs
    /\ driver = 0
    /\ acquired = 0
    /\ quitted = {}
    /\ nextHandle = 1
    /\ page = NoPage
    /\ lexit = "none"
    /\ lresult = NoResult

Next ==
    \/ \E body \in Bodies, outcome \in StoreOutcomes : Search(body, outcome)
    \/ \E order \in TimestampDescOrders(queries), outcome \in StoreOutcomes :
          History(order, outcome)
    \/ \E outcome \in StoreOutcomes : ClearHistory(outcome)
    \/ \E query_id \in 0..MaxQueries, outcome \in StoreOutcomes :
          DownloadRaw(query_id, outcome)
    \/ Tick

Spec == Init /\ [][Next]_vars

NextLive ==
    \/ \E args \in LiveArgs : LiveCall(args)
    \/ \E outcome \in {"chrome_raises", "script_raises", "ok"} : SetupDriver(outcome)
    \/ \E ok \in BOOLEAN : OpenPage(ok)
    \/ \E finding \in CaptchaFindings : CheckChallenge(finding)
    \/ \E outcome \in {"timeout", "raises", "ok"}, sourceOk \in BOOLEAN :
          FillForm(outcome, sourceOk)
    \/ \E pg \in ResultPages, outcome \in {"raises", "ok"}, sourceOk \in BOOLEAN :
          Submit(pg, outcome, sourceOk)
    \/ ReadResults

SpecLive == Init /\ [][NextLive]_vars

(***************************************************************************)
(* Properties.                                                             *)
(***************************************************************************)
IsPrefix(s, t) == Len(s) <= Len(t) /\ SubSeq(t, 1, Len(s)) = s

IsText(v) == v.kind = "str"

\* exactly four digits, written apart from MatchYear
FourDigits(s) ==
    /\ Len(s) = 4
    /\ \A i \in 1..Len(s) :
          s[i] \in {"0", "1", "2", "3", "4", "5", "6", "7", "8", "9"}

\* the result is the synthetic fallback, not an error
IsSyntheticFallback(result) ==
    /\ "success" \in result.keys /\ result.success
    /\ "source" \in result.keys /\ result.source = "mock_data"
    /\ "error" \notin result.keys

\* a step of POST /search (the request and the store's outcome are read off
\* the state the step leads to)
SearchStep == req'.body \in Bodies /\ Search(req'.body, storeOutcome')

\* C1, as stated: every /search request whose case_type and case_number are
\* non-empty and whose filing_year is exactly four digits is answered with
\* success = true.
C1_Original ==
    ( /\ req.op = "search"
      /\ IsText(req.body.case_type) /\ req.body.case_type.val # <<>>
      /\ IsText(req.body.case_number) /\ req.body.case_number.val # <<>>
      /\ IsText(req.body.filing_year) /\ FourDigits(req.body.filing_year.val) )
    => (resp.status = 200 /\ resp.result.success)

\* C1, amended: every /search request whose case_type and case_number are
\* non-empty once surrounding whitespace is stripped and whose filing_year is
\* exactly four digits is answered 200 with success = true.
C1_ValidLookupSucceeds ==
    ( /\ req.op = "search"
      /\ IsText(req.body.case_type) /\ Strip(req.body.case_type.val) # <<>>
      /\ IsText(req.body.case_number) /\ Strip(req.body.case_number.val) # <<>>
      /\ IsText(req.body.filing_year) /\ FourDigits(req.body.filing_year.val) )
    => ( /\ resp.status = 200
         /\ "success" \in resp.result.keys /\ resp.result.success
         /\ lookedUp )

C1_Witness ==
    /\ req.op = "search"
    /\ req.body.case_type = Str(<<" ", "W">>)
    /\ req.body.case_number = Str(<<"7">>)
    /\ req.body.filing_year = Str(<<"2", "0", "2", "4">>)
    /\ resp.status = 200 /\ resp.result.success

\* C2: when the live attempt detects a verification challenge at
\* CHECK_CHALLENGE (a finding, or a check that could not be made), the result
\* search_case_real returns is the synthetic fallback (success = true,
\* source = "mock_data"), not an error.
C2_BlockedFallsBack ==
    (lpc = "returned" /\ lexit \in {"blocked", "check_exception"})
    => (IsSyntheticFallback(lresult) /\ "blocked" \notin lresult.keys)

C2_Witness ==
    /\ lpc = "returned" /\ lexit = "blocked"
    /\ acquired # 0 /\ acquired \in quitted
    /\ lresult.source = "mock_data"

\* C3, as stated: whenever a step of the live attempt raised (driver setup,
\* page open, challenge check, form fill, submit, page read, parse), a
\* timeout included, the result returned is the synthetic fallback and not a
\* result with success = false.
ExceptionExits ==
    {"setup_exception", "open_exception", "check_exception", "fill_timeout",
     "fill_exception", "submit_exception", "parse_exception"}

C3_Original ==
    (lpc = "returned" /\ lexit \in ExceptionExits) => IsSyntheticFallback(lresult)

\* C4, as stated: when search_case_real returns, a browser driver acquired
\* during the call has been released: quit() was called on it and
\* self.driver is None.
C4_Original ==
    (lpc = "returned" /\ acquired # 0) => (driver = 0 /\ acquired \in quitted)

\* C5, as stated: a /search request whose filing_year does not match ^\d{4}$
\* is rejected with a 400 and no lookup is performed.
C5_Original ==
    ( /\ req.op = "search"
      /\ ~(IsText(req.body.filing_year) /\ FourDigits(req.body.filing_year.val)) )
    => (resp.status = 400 /\ ~lookedUp)

\* C5, amended: a /search request whose fields are texts or absent and whose
\* filing_year, once surrounding whitespace is stripped, does not match
\* ^\d{4}$ is rejected with a 400 and no lookup is performed.
C5_BadYearRejected ==
    ( /\ req.op = "search"
      /\ \A f \in {"case_type", "case_number", "filing_year"} :
            req.body[f].kind # "null"
      /\ ~FourDigits(Strip(DataGet(req.body.filing_year).val)) )
    => ( /\ resp.status = 400
         /\ "success" \in resp.result.keys /\ ~resp.result.success
         /\ ~lookedUp )

C5_Witness ==
    /\ req.op = "search"
    /\ req.body.case_type = Str(<<"W">>)
    /\ req.body.case_number = Str(<<"7">>)
    /\ req.body.filing_year = Str(<<"2", "0", "x", "4">>)
    /\ resp.status = 400
    /\ resp.result.error = "Filing year must be a 4-digit year"

\* the request of C6: {filing_year: "24"}
OnlyYear24 ==
    [case_type |-> Missing, case_number |-> Missing,
     filing_year |-> Str(<<"2", "4">>)]

\* the one message of the route that mentions the 4-digit year
Mentions4DigitYear(message) == message = "Filing year must be a 4-digit year"

\* C6, as stated: the request {filing_year: "24"} is answered 400 with an
\* error message that mentions the 4-digit year.
C6_Original ==
    (req.op = "search" /\ req.body = OnlyYear24)
    => (resp.status = 400 /\ Mentions4DigitYear(resp.result.error))

\* C6, amended: the request {filing_year: "24"} is answered 400 with the
\* error message "All fields are required"; the required-fields check comes
\* before the year check.
C6_OnlyYearRejected ==
    (req.op = "search" /\ req.body = OnlyYear24)
    => ( /\ resp.status = 400
         /\ ~resp.result.success
         /\ resp.result.error = "All fields are required" )

C6_Witness ==
    /\ req.op = "search" /\ req.body = OnlyYear24
    /\ resp.status = 400

\* C7: a failure of the store during log_query does not change the /search
\* response: status and body are those of the same request with a
\* successful append, and a lookup that ran is still answered 200.
C7_StoreFailureSwallowed ==
    (req.op = "search" /\ storeOutcome # "ok")
    => ( /\ resp = search_case(req.body, "ok", queries, nextId, now).resp
         /\ lookedUp => (resp.status = 200 /\ resp.result.success) )

C7_Witness ==
    /\ req.op = "search" /\ storeOutcome = "fails" /\ lookedUp
    /\ resp.status = 200
    /\ queries = <<>>

\* C8: the case_number of the synthetic fallback record is case_type, one
\* space, case_number, a slash, filing_year, for all arguments.
C8_MockCaseNumber ==
    (lpc = "returned" /\ lresult.source = "mock_data")
    => LET title == lresult.data.case_number
           t == Len(largs.case_type)
           n == Len(largs.case_number)
           y == Len(largs.filing_year)
       IN /\ Len(title) = t + n + y + 2
          /\ SubSeq(title, 1, t) = largs.case_type
          /\ title[t + 1] = " "
          /\ SubSeq(title, t + 2, t + n + 1) = largs.case_number
          /\ title[t + n + 2] = "/"
          /\ SubSeq(title, t + n + 3, t + n + y + 2) = largs.filing_year

C8_Witness ==
    /\ lpc = "returned" /\ lresult.source = "mock_data"
    /\ largs.case_type = <<" ", "W">>
    /\ largs.case_number = <<"7">>
    /\ lresult.data.case_number = <<" ", "W", " ", "7", "/", "2", "4">>

\* the row lines 469-477 write for the result of a lookup aborted on a
\* detected challenge (lines 163-173): an error, with no data
RowOfChallengeAbort(row) ==
    row.status = "error" /\ row.parsed_data.json = "{}"

\* C9: every row of the query log has one status, success or error, and its
\* is_blocked flag is set only if the lookup it records was aborted on a
\* detected challenge.
C9_StatusAndBlocked ==
    \A i \in 1..Len(queries) :
        /\ queries[i].status \in {"success", "error"}
        /\ queries[i].is_blocked \in {0, 1}
        /\ queries[i].is_blocked = 1 => RowOfChallengeAbort(queries[i])

C9_Witness ==
    /\ Len(queries) = 2
    /\ \A i \in 1..2 : queries[i].status = "success" /\ queries[i].is_blocked = 0

\* C10, as stated: a row is created on every lookup, and rows are removed
\* or changed by the clear-all operation only.
C10_Original ==
    [][ /\ (SearchStep /\ lookedUp') => Len(queries') = Len(queries) + 1
        /\ ~IsPrefix(queries, queries') => (ClearHistory("ok") /\ queries' = <<>>)
      ]_vars

\* C10, amended: a row is created on every lookup whose append succeeds (a
\* failed append creates none) and by nothing else; no search, history or
\* raw download changes or removes a row; only clear-all removes rows.
C10_AppendOnly ==
    [][ /\ (SearchStep /\ lookedUp' /\ storeOutcome' = "ok")
              => (Len(queries') = Len(queries) + 1 /\ IsPrefix(queries, queries'))
        /\ (SearchStep /\ ~(lookedUp' /\ storeOutcome' = "ok"))
              => queries' = queries
        /\ Len(queries') > Len(queries) => SearchStep
        /\ ~IsPrefix(queries, queries') => (ClearHistory("ok") /\ queries' = <<>>)
      ]_vars

C10_Witness ==
    /\ Len(queries) = 1 /\ queries[1].id = 2
    /\ req.op = "download" /\ req.query_id = 2 /\ resp.status = 200

\* C11, as stated: GET /history returns at most 50 rows, the most recently
\* appended ones, newest first: a row appended later never comes after a
\* row appended earlier.
C11_Original ==
    (req.op = "history" /\ resp.status = 200)
    => LET n == Len(queries)
           k == IF n < 50 THEN n ELSE 50
       IN /\ Len(resp.rows) = k
          /\ \A i \in 1..k : resp.rows[i].id = queries[n + 1 - i].id

\* the rows of the log with a given id
RowsWithId(query_id) == {i \in 1..Len(queries) : queries[i].id = query_id}

\* C12, as stated: GET /download/raw/<query_id> returns the raw response
\* stored for the id when the log holds a row with it, and 404 when it holds
\* none; there is no other outcome.
C12_Original ==
    req.op = "download"
    => IF RowsWithId(req.query_id) # {}
       THEN /\ resp.status = 200
            /\ \A i \in RowsWithId(req.query_id) :
                  resp.text = queries[i].raw_response
       ELSE resp.status = 404

\* C12, amended: when the database can be read, GET /download/raw/<query_id>
\* returns the raw response stored for the id when the log holds a row with
\* it, and 404 when it holds none; when a database call raises, the answer
\* is 500.
C12_RawDownload ==
    req.op = "download"
    => IF storeOutcome # "ok"
       THEN resp.status = 500
       ELSE IF RowsWithId(req.query_id) # {}
       THEN /\ resp.status = 200
            /\ \A i \in RowsWithId(req.query_id) :
                  resp.text = queries[i].raw_response
            /\ resp.text.kind = "mock"
       ELSE resp.status = 404 /\ resp.result.error = "Query not found"

C12_Witness ==
    /\ req.op = "download" /\ req.query_id = 2 /\ storeOutcome = "ok"
    /\ Len(queries) = 1 /\ queries[1].id = 2
    /\ resp.status = 200 /\ resp.text = MockHtml

\* C13: after any sequence of lookups, a POST /history/clear that answers
\* {success: true}, followed by GET /history as the next request, lists no
\* rows.
C13_ClearThenHistoryEmpty ==
    [][ ( /\ req.op = "clear" /\ resp.status = 200 /\ resp.result.success
          /\ req'.op = "history" /\ resp'.status = 200 )
        => (resp'.rows = <<>> /\ queries' = <<>>) ]_vars

C13_Witness ==
    /\ req.op = "history" /\ resp.status = 200 /\ resp.rows = <<>>
    /\ queries = <<>> /\ nextId = 3

\* a cell counts for filing_date when it holds a date and "filing"/"filed",
\* and for next_hearing_date when it holds a date and "hearing"/"next" and
\* does not count for filing_date
QualifiesFiling(text) ==
    /\ \E i \in 1..Len(text) : text[i] \in {"01/02/2020", "03/04/2021", "05/06/2022"}
    /\ \E i \in 1..Len(text) : text[i] \in {"Filed", "filing"}
QualifiesHearing(text) ==
    /\ \E i \in 1..Len(text) : text[i] \in {"01/02/2020", "03/04/2021", "05/06/2022"}
    /\ \E i \in 1..Len(text) : text[i] \in {"Hearing", "next"}
    /\ ~QualifiesFiling(text)

\* the text of the first cell of cells that is in the set hits, or "N/A"
FirstOf(cells, hits) ==
    IF \E i \in 1..Len(cells) : cells[i] \in hits
    THEN cells[CHOOSE i \in 1..Len(cells) :
                  /\ cells[i] \in hits
                  /\ \A j \in 1..(i - 1) : cells[j] \notin hits]
    ELSE <<"N/A">>

\* C14, as stated: when several cells of the results page qualify for the
\* same date field, the first qualifying cell in document order gives the
\* field; later qualifying cells do not change it.
C14_Original ==
    (lpc = "returned" /\ lexit = "parsed")
    => /\ lresult.data.filing_date =
             FirstOf(page.cells, {c \in Cells : QualifiesFiling(c)})
       /\ lresult.data.next_hearing_date =
             FirstOf(page.cells, {c \in Cells : QualifiesHearing(c)})

=============================================================================
